---- MODULE Spec2Model ----
(***************************************************************************)
(* A model of the isked task scheduler (src/scheduler.go): the fluent task *)
(* builder working on the package-level value TK, the registry             *)
(* TS.TaskList with its mutex, and the poll loop TaskScheduler.Run with    *)
(* its cancellation channel ChannelTS.                                     *)
(*                                                                         *)
(* Time is Unix time in seconds.  time.Local is taken to be UTC (no zone   *)
(* offset, no daylight saving).  A string of the program is a sequence of  *)
(* one-character strings, so that trimming, splitting, concatenation and   *)
(* number conversion are computed and not assumed.                         *)
(***************************************************************************)
EXTENDS Integers, Sequences, FiniteSets, TLC

VARIABLES
    now,          \* the wall clock, time.Now().Unix()
    TK,           \* the package-level task under construction (var TK)
    TaskList,     \* TS.TaskList: task name -> the one Tasks value stored
    mu,           \* TS.mu: "" when free, else the goroutine holding it
    ChannelTS,    \* the buffered cancellation channel (capacity 1)
    pc,           \* position of the goroutine executing TaskScheduler.Run
    todo,         \* keys the running sweep (range t.TaskList) has yet to visit
    s,            \* the loop variable s of Run: a copy of the entry visited
    spawned,      \* the callbacks the last step started with "go s.ExecuteFunc()"
    notes,        \* the notifications the last step emitted
    asked,        \* per builder handle: what the caller asked of it, what it stored
    sweepsSinceSend, \* sweeps started since the signal now in the channel was sent
    seen,         \* keys whose due-check has run during the current second
    fired,        \* names whose callback this Run started for the current second
    pendingSweeps, \* -1, or, when Run was called with a signal pending, the
                  \* sweeps that invocation has started
    computedAt,   \* per key: the clock reading its nextRunTime was computed from
    horizon       \* the instant past which the clock is not followed

vars == <<now, TK, TaskList, mu, ChannelTS, pc, todo, s, spawned, notes,
          asked, sweepsSinceSend, seen, fired, pendingSweeps, computedAt, horizon>>

(***************************************************************************)
(* Bounds of the model.                                                    *)
(***************************************************************************)
\* How far the clock advances past the instant the program starts.
MaxTicks == 3

(***************************************************************************)
(* Strings.                                                                *)
(***************************************************************************)
\* The printable characters of ASCII in the order of their code points,
\* U+0020 to U+007E.  A character of the program is written as itself when
\* this language can spell it, as "\\v" for the vertical tab, and otherwise
\* as its Go escape \uXXXX or \UXXXXXXXX; however it is written, it is one
\* character, and it is told from the others by its code point.
AsciiChars ==
    <<" ", "!", "\"", "#", "$", "%", "&", "'", "(", ")", "*", "+",
      ",", "-", ".", "/", "0", "1", "2", "3", "4", "5", "6", "7",
      "8", "9", ":", ";", "<", "=", ">", "?", "@", "A", "B", "C",
      "D", "E", "F", "G", "H", "I", "J", "K", "L", "M", "N", "O",
      "P", "Q", "R", "S", "T", "U", "V", "W", "X", "Y", "Z", "[",
      "\\", "]", "^", "_", "\\u0060", "a", "b", "c", "d", "e", "f", "g",
      "h", "i", "j", "k", "l", "m", "n", "o", "p", "q", "r", "s",
      "t", "u", "v", "w", "x", "y", "z", "{", "|", "}", "~">>

HexChars == "0123456789ABCDEF"

HexCharsLower == "0123456789abcdef"

\* The value of the hexadecimal digit d.
HexVal(d) ==
    (CHOOSE i \in 1..16 : SubSeq(HexChars, i, i) = d
                             \/ SubSeq(HexCharsLower, i, i) = d) - 1

\* The code point of a character written as a Go escape, \uXXXX or
\* \UXXXXXXXX: the value of the hexadecimal digits at positions 3..n.
RECURSIVE CodePoint(_, _)
CodePoint(c, n) ==
    IF n = 2 THEN 0 ELSE 16 * CodePoint(c, n - 1) + HexVal(SubSeq(c, n, n))

\* Whether character c is written as a Go escape \uXXXX or \UXXXXXXXX.
IsEscape(c) ==
    \/ Len(c) = 6 /\ SubSeq(c, 1, 2) = "\\u"
    \/ Len(c) = 10 /\ SubSeq(c, 1, 2) = "\\U"

\* The code point of character c, whichever way it is written.
Rune(c) ==
    IF IsEscape(c) THEN CodePoint(c, Len(c))
    ELSE CASE c = "\t"  -> 9
           [] c = "\n"  -> 10
           [] c = "\\v" -> 11
           [] c = "\f"  -> 12
           [] c = "\r"  -> 13
           [] OTHER     -> 31 + (CHOOSE i \in 1..Len(AsciiChars) : AsciiChars[i] = c)

\* The n hexadecimal digits of r, as the escapes of this module write them.
RECURSIVE Hex(_, _)
Hex(r, n) ==
    IF n = 0 THEN ""
    ELSE Hex(r \div 16, n - 1) \o SubSeq(HexChars, (r % 16) + 1, (r % 16) + 1)

\* The one way this module writes the character of code point r in a value
\* the program holds, so that equal strings of the program are equal here.
Chr(r) ==
    CASE r \in 32..126 -> AsciiChars[r - 31]
      [] r = 9         -> "\t"
      [] r = 10        -> "\n"
      [] r = 11        -> "\\v"
      [] r = 12        -> "\f"
      [] r = 13        -> "\r"
      [] OTHER         -> IF r < 65536 THEN "\\u" \o Hex(r, 4)
                                       ELSE "\\U" \o Hex(r, 8)

\* A string the caller hands over, as the value the program holds.
StringOf(str) == [i \in 1..Len(str) |-> Chr(Rune(str[i]))]

DigitChars == <<"0", "1", "2", "3", "4", "5", "6", "7", "8", "9">>

IsDigit(c) == Rune(c) \in Rune("0")..Rune("9")

DigitVal(c) == Rune(c) - Rune("0")

\* The white space of unicode.IsSpace, which strings.TrimSpace removes: the
\* code points with the property White_Space.
WhiteSpace ==
    {9, 10, 11, 12, 13, 32, 133, 160, 5760} \cup (8192..8202)
        \cup {8232, 8233, 8239, 8287, 12288}

IsSpace(c) == Rune(c) \in WhiteSpace

RECURSIVE TrimLeft(_)
TrimLeft(str) ==
    IF str # <<>> /\ IsSpace(Head(str)) THEN TrimLeft(Tail(str)) ELSE str

RECURSIVE TrimRight(_)
TrimRight(str) ==
    IF str # <<>> /\ IsSpace(str[Len(str)])
    THEN TrimRight(SubSeq(str, 1, Len(str) - 1))
    ELSE str

\* strings.TrimSpace
TrimSpace(str) == TrimRight(TrimLeft(str))

\* The bytes character c takes in the UTF-8 encoding of a Go string: the
\* width of its code point, one to four bytes.
Utf8Width(c) ==
    LET cp == Rune(c)
    IN  IF cp < 128 THEN 1
        ELSE IF cp < 2048 THEN 2
        ELSE IF cp < 65536 THEN 3 ELSE 4

\* len(str): the length of a Go string in bytes.
RECURSIVE ByteLen(_)
ByteLen(str) ==
    IF str = <<>> THEN 0 ELSE Utf8Width(Head(str)) + ByteLen(Tail(str))

\* strings.Contains(str, c) for a one-character c
Contains(str, c) == \E i \in 1..Len(str) : Rune(str[i]) = Rune(c)

\* The position of the first c in str, or Len(str) + 1 when there is none.
IndexOf(str, c) ==
    IF Contains(str, c)
    THEN CHOOSE i \in 1..Len(str) :
            Rune(str[i]) = Rune(c) /\ \A j \in 1..(i - 1) : Rune(str[j]) # Rune(c)
    ELSE Len(str) + 1

\* strings.Split(str, c)[0]
SplitFirst(str, c) == SubSeq(str, 1, IndexOf(str, c) - 1)

\* strings.Split(str, c)[1], for a str that contains c
SplitSecond(str, c) ==
    LET rest == SubSeq(str, IndexOf(str, c) + 1, Len(str))
    IN  SubSeq(rest, 1, IndexOf(rest, c) - 1)

RECURSIVE DigitsVal(_)
DigitsVal(str) ==
    IF str = <<>> THEN 0
    ELSE 10 * DigitsVal(SubSeq(str, 1, Len(str) - 1)) + DigitVal(str[Len(str)])

\* strconv.Atoi with its error dropped ("runHour, _ := strconv.Atoi(...)"):
\* an optional sign and decimal digits give the number, anything else gives 0.
Atoi(str) ==
    LET signed == str # <<>> /\ Rune(Head(str)) \in {Rune("+"), Rune("-")}
        body   == IF signed THEN Tail(str) ELSE str
    IN  IF body = <<>> \/ \E i \in 1..Len(body) : ~IsDigit(body[i])
        THEN 0
        ELSE IF Rune(Head(str)) = Rune("-") THEN 0 - DigitsVal(body)
                                            ELSE DigitsVal(body)

\* fmt.Sprintf("%v", n) for n >= 0
RECURSIVE Itoa(_)
Itoa(n) ==
    IF n < 10 THEN <<DigitChars[n + 1]>>
    ELSE Itoa(n \div 10) \o <<DigitChars[(n % 10) + 1]>>

(***************************************************************************)
(* The calendar: time.Date(...).Unix() and the fields of time.Now(), in    *)
(* the proleptic Gregorian calendar.                                       *)
(***************************************************************************)
\* Days from 1970-01-01 to the civil date y-m-d, m in 1..12, d any integer
\* (time.Date lets the day run over or under the month and normalises).
DaysFromCivil(y, m, d) ==
    LET yy  == IF m <= 2 THEN y - 1 ELSE y
        era == yy \div 400
        yoe == yy - era * 400
        mp  == (m + 9) % 12
        doy == (153 * mp + 2) \div 5 + d - 1
        doe == yoe * 365 + yoe \div 4 - yoe \div 100 + doy
    IN  era * 146097 + doe - 719468

\* The civil date of a day number: [year, month, day].
CivilFromDays(z) ==
    LET zz  == z + 719468
        era == zz \div 146097
        doe == zz - era * 146097
        yoe == (doe - doe \div 1460 + doe \div 36524 - doe \div 146096) \div 365
        doy == doe - (365 * yoe + yoe \div 4 - yoe \div 100)
        mp  == (5 * doy + 2) \div 153
        d   == doy - (153 * mp + 2) \div 5 + 1
        m   == IF mp < 10 THEN mp + 3 ELSE mp - 9
    IN  [year |-> (yoe + era * 400) + (IF m <= 2 THEN 1 ELSE 0), month |-> m, day |-> d]

DayNumber(t) == t \div 86400

Year(t)  == CivilFromDays(DayNumber(t)).year
Month(t) == CivilFromDays(DayNumber(t)).month
Day(t)   == CivilFromDays(DayNumber(t)).day
\* time.Weekday: Sunday = 0 ... Saturday = 6 (1970-01-01 was a Thursday)
Weekday(t) == (DayNumber(t) + 4) % 7
Hour(t)   == (t % 86400) \div 3600
Minute(t) == (t % 3600) \div 60

\* time.Date(y, m, d, h, mi, 0, 0, time.Local).Unix(): month, day, hour and
\* minute outside their ranges are normalised by carrying over.
Date(y, m, d, h, mi) ==
    LET y2 == y + (m - 1) \div 12
        m2 == ((m - 1) % 12) + 1
    IN  DaysFromCivil(y2, m2, d) * 86400 + h * 3600 + mi * 60

(***************************************************************************)
(* The task value (type Tasks) and the recurrence computations.            *)
(***************************************************************************)
\* The nil func value of ExecuteFunc.
NoFunc == "nil"

\* Tasks{}: the zero value, which TK holds at package initialisation.
ZeroTask ==
    [Name |-> <<>>, RunType |-> "", FrequencyInterval |-> "", FrequencyValue |-> 0,
     ExecuteFunc |-> NoFunc, runAtHour |-> <<>>, runAtMinute |-> <<>>,
     isRunAt |-> FALSE, dayName |-> 0, monthName |-> 0, monthDay |-> 0,
     nextRunTime |-> 0, lastRunTime |-> 0, created |-> 0]

\* The seconds in one unit of FrequencyInterval.
UnitSeconds(interval) ==
    CASE interval = "seconds" -> 1
      [] interval = "minutes" -> 60
      [] interval = "hours"   -> 3600

\* The frequently case with the interval's value left out.
FrequentlyNextOneUnit(t, clock, carry) ==
    IF t.FrequencyInterval \in {"seconds", "minutes", "hours"}
    THEN clock + UnitSeconds(t.FrequencyInterval)
    ELSE 0

\* time.Duration is an int64 count of nanoseconds, and the product
\* "time.Minute * time.Duration(v)" wraps at 2^64 ns = 18446744073.709551616 s.
\* WrapUnits is the number of whole units in 2^64 ns, WrapRest the whole
\* seconds left over, HalfUnits the greatest v whose product stays below
\* 2^63 ns.  (The numbers of this model are 32 bits wide: a v in seconds
\* that wraps cannot be written, and its case is left out.)
WrapUnits(interval) ==
    CASE interval = "minutes" -> 307445734
      [] interval = "hours"   -> 5124095

WrapRest(interval) ==
    CASE interval = "minutes" -> 33
      [] interval = "hours"   -> 2073

HalfUnits(interval) ==
    CASE interval = "minutes" -> 153722867
      [] interval = "hours"   -> 2562047

\* Whether the product for v units has wrapped.
Wrapped(v, interval) == interval \in {"minutes", "hours"} /\ v > HalfUnits(interval)

\* The whole seconds by which time.Now().Add(unit * time.Duration(v)).Unix()
\* differs from time.Now().Unix(), for 1 <= v <= HalfUnits + WrapUnits.  A
\* product that has not wrapped is a whole number of seconds.  A product
\* wrapped once ends in .290448384 s: the difference is its whole seconds
\* when the clock's fraction of a second is below .709551616 (carry 0) and
\* one more otherwise (carry 1).
DurationSeconds(v, interval, carry) ==
    IF ~Wrapped(v, interval)
    THEN UnitSeconds(interval) * v
    ELSE (v - WrapUnits(interval)) * UnitSeconds(interval)
            - WrapRest(interval) - 1 + carry

\* The carries the clock's fraction of a second can give task t.
Carries(t) ==
    IF t.RunType = "frequently" /\ Wrapped(t.FrequencyValue, t.FrequencyInterval)
    THEN {0, 1}
    ELSE {0}

\* The frequently case of AddTask and of UpdateNextRunTime: three ifs on
\* FrequencyInterval, none of which may apply.
FrequentlyNext(t, clock, carry) ==
    IF t.FrequencyInterval \in {"seconds", "minutes", "hours"}
    THEN clock + DurationSeconds(t.FrequencyValue, t.FrequencyInterval, carry)
    ELSE 0

\* The daily case: tomorrow's date at runAtHour:runAtMinute.  The year, the
\* month and the day come from three readings of the clock, made one after
\* the other: clock, clock + lag[1] and clock + lag[2].
DailyNext(t, clock, lag) ==
    Date(Year(clock), Month(clock + lag[1]), Day(clock + lag[2]) + 1,
         Atoi(t.runAtHour), Atoi(t.runAtMinute))

\* The seconds after the first reading at which task t's later readings of
\* one computation may be made, when d seconds pass during the call.
Lags(t, d) ==
    IF t.RunType = "daily"
    THEN {<<a, b>> : a \in 0..d, b \in 0..d} \ {<<1, 0>>}
    ELSE {<<0, 0>>}

\* The weekly case without the week added.
WeeklyNextThisWeek(t, clock) ==
    Date(Year(clock), Month(clock), Day(clock) - (Weekday(clock) - t.dayName),
         Atoi(t.runAtHour), Atoi(t.runAtMinute))

\* The weekly case: the day of this week named dayName, at the run time,
\* plus 7 * 24 hours.
WeeklyNext(t, clock) ==
    Date(Year(clock), Month(clock), Day(clock) - (Weekday(clock) - t.dayName),
         Atoi(t.runAtHour), Atoi(t.runAtMinute)) + 7 * 24 * 3600

\* The monthly case: day monthDay of the month after the current one.
MonthlyNext(t, clock) ==
    Date(Year(clock), Month(clock) + 1, t.monthDay,
         Atoi(t.runAtHour), Atoi(t.runAtMinute))

\* Whether the switch on RunType in AddTask takes one of its cases.
RecognizedAtCommit(t) ==
    t.RunType \in {"onetime", "frequently", "daily", "weekly", "monthly"}

\* nextSchedToRun as AddTask computes it.
CommitNextSched(t, clock, carry, lag) ==
    CASE t.RunType = "onetime"    -> t.nextRunTime
      [] t.RunType = "frequently" -> FrequentlyNext(t, clock, carry)
      [] t.RunType = "daily"      -> DailyNext(t, clock, lag)
      [] t.RunType = "weekly"     -> WeeklyNext(t, clock)
      [] t.RunType = "monthly"    -> MonthlyNext(t, clock)
      [] OTHER                    -> 0

\* The notifications of AddTask: the error of the default case, then the
\* "next schedule to run on" information, which no case skips.
CommitNotes(t) ==
    (IF RecognizedAtCommit(t) THEN <<>> ELSE <<"error">>) \o <<"info">>

\* newTask of AddTask: the fields it copies from the receiver (dayName is
\* not among them and keeps its zero value).  nextSchedToRun comes from the
\* clock as the switch reads it, created from the reading made after the
\* notifications have been written.
newTask(t, clock, carry, lag, created) ==
    [ZeroTask EXCEPT
        !.Name = t.Name, !.RunType = t.RunType,
        !.FrequencyInterval = t.FrequencyInterval,
        !.FrequencyValue = t.FrequencyValue, !.ExecuteFunc = t.ExecuteFunc,
        !.runAtHour = t.runAtHour, !.runAtMinute = t.runAtMinute,
        !.monthDay = t.monthDay, !.monthName = t.monthName,
        !.isRunAt = t.isRunAt,
        !.nextRunTime = CommitNextSched(t, clock, carry, lag),
        !.lastRunTime = 0, !.created = created]

\* Whether the switch on RunType in UpdateNextRunTime takes one of its
\* cases: it has none for onetime.
RecognizedAtReschedule(t) ==
    t.RunType \in {"frequently", "daily", "weekly", "monthly"}

\* nextSchedToRun of a reschedule that kept a one-time task's next-run time.
RescheduleKeepsOneTime(t, clock, carry, lag) ==
    CASE t.RunType = "onetime"    -> t.nextRunTime
      [] t.RunType = "frequently" -> FrequentlyNext(t, clock, carry)
      [] t.RunType = "daily"      -> DailyNext(t, clock, lag)
      [] t.RunType = "weekly"     -> WeeklyNext(t, clock)
      [] t.RunType = "monthly"    -> MonthlyNext(t, clock)
      [] OTHER                    -> 0

\* nextSchedToRun as UpdateNextRunTime computes it.
RescheduleNextSched(t, clock, carry, lag) ==
    CASE t.RunType = "frequently" -> FrequentlyNext(t, clock, carry)
      [] t.RunType = "daily"      -> DailyNext(t, clock, lag)
      [] t.RunType = "weekly"     -> WeeklyNext(t, clock)
      [] t.RunType = "monthly"    -> MonthlyNext(t, clock)
      [] OTHER                    -> 0

\* The notifications of UpdateNextRunTime.
RescheduleNotes(t) ==
    (IF RecognizedAtReschedule(t) THEN <<>> ELSE <<"error">>)
    \o (IF t.RunType # "onetime" THEN <<"info">> ELSE <<>>)

\* modTask of UpdateNextRunTime (neither dayName nor created is copied).
\* nextSchedToRun comes from the clock as the switch reads it, lastRunTime
\* from the reading made after the notifications have been written.
modTask(t, clock, carry, lag, last) ==
    [ZeroTask EXCEPT
        !.Name = t.Name, !.RunType = t.RunType,
        !.FrequencyInterval = t.FrequencyInterval,
        !.FrequencyValue = t.FrequencyValue, !.ExecuteFunc = t.ExecuteFunc,
        !.runAtHour = t.runAtHour, !.runAtMinute = t.runAtMinute,
        !.monthDay = t.monthDay, !.monthName = t.monthName,
        !.isRunAt = t.isRunAt,
        !.nextRunTime = RescheduleNextSched(t, clock, carry, lag),
        !.lastRunTime = last]

\* getLastDayOfMonth(day, month), read at time clock: the day given, or the
\* last day of that month of the current year when day is 0 or beyond it.
getLastDayOfMonth(day, month, clock) ==
    LET firstDayOfMonth == Date(Year(clock), month, 1, 0, 0)
        \* firstDayOfMonth.AddDate(0, 1, -1).Day()
        lastDayOfMonth  ==
            Day(Date(Year(firstDayOfMonth), Month(firstDayOfMonth) + 1, 1 - 1, 0, 0))
    IN  IF day = 0 \/ day > lastDayOfMonth THEN lastDayOfMonth ELSE day

\* Every(day) with only day 0 resolved.
EveryDayAsGiven(day, clock, lag) ==
    IF day = 0 THEN getLastDayOfMonth(day, Month(clock), clock + lag[1]) ELSE day

\* s.monthDay as Every(day) sets it.  Every reads the clock for the month
\* (today) and each call of getLastDayOfMonth reads it again for the year:
\* lag[1] and lag[2] are the seconds by which those readings are later.
EveryDay(day, clock, lag) ==
    LET lastDayOfMonth == getLastDayOfMonth(day, Month(clock), clock + lag[1])
    IN  CASE day = 0              -> lastDayOfMonth
          [] day > lastDayOfMonth ->
                 getLastDayOfMonth(day, Month(clock), clock + lag[2])
          [] OTHER                -> day

\* runAtHour and runAtMinute as At(rt) sets them, for a RunType that takes
\* them: [hour, minute].
AtFields(rt) ==
    LET pTime == TrimSpace(rt)
    IN  IF Contains(pTime, ":") /\ ByteLen(pTime) = 5
        THEN [hour |-> SplitFirst(pTime, ":"), minute |-> SplitSecond(pTime, ":")]
        ELSE [hour |-> <<"0", "0">>, minute |-> <<"0", "0">>]

\* TaskScheduler.Get: the entries stored under taskName (none when absent).
Get(taskName) ==
    IF taskName \in DOMAIN TaskList THEN <<TaskList[taskName]>> ELSE <<>>

\* newTaskName of TaskName: the trimmed name, or, for each entry found under
\* the name looked up, that entry's name with "_" and the Unix time.
NewTaskName(taskName, lookup, clock) ==
    IF Get(lookup) = <<>>
    THEN TrimSpace(taskName)
    ELSE Get(lookup)[1].Name \o <<"_">> \o Itoa(clock)

\* The task value TaskName stores in TK.  TaskName reads the clock once for
\* each use: clock for the suffix of the name, monthClock for monthName and
\* createdClock for created.
NamedTask(taskName, lookup, clock, monthClock, createdClock) ==
    [ZeroTask EXCEPT
        !.Name = NewTaskName(taskName, lookup, clock),
        !.monthName = Month(monthClock),
        !.created = createdClock]

(***************************************************************************)
(* The inputs the caller draws from.                                       *)
(***************************************************************************)
\* The instant the program starts: Tuesday 2023-11-14 22:13:20.
StartTime == Date(2023, 11, 14, 22, 13) + 20

\* The builder handles a caller holds: every one is the pointer &TK that
\* TaskName returned.
Handles == {1, 2}

Funcs == {"f1", "f2"}

\* What uuid.New().String() may return.
UUIDs == {<<"u", "u", "i", "d", "-", "1">>, <<"u", "u", "i", "d", "-", "2">>}

\* A handle not yet obtained from TaskName.
NotAsked ==
    [live |-> FALSE, Name |-> <<>>, RunType |-> "", ExecuteFunc |-> NoFunc,
     done |-> FALSE, stored |-> [Name |-> <<>>, RunType |-> "", ExecuteFunc |-> NoFunc]]

(***************************************************************************)
(* The initial state: the package-level variables as initialised.          *)
(***************************************************************************)
Init ==
    /\ now = StartTime
    /\ TK = ZeroTask
    /\ TaskList = <<>>
    /\ mu = ""
    /\ ChannelTS = <<>>
    /\ pc = "idle"
    /\ todo = {}
    /\ s = ZeroTask
    /\ spawned = {}
    /\ notes = <<>>
    /\ asked = [h \in Handles |-> NotAsked]
    /\ sweepsSinceSend = 0
    /\ seen = {}
    /\ fired = {}
    /\ pendingSweeps = -1
    /\ computedAt = <<>>
    /\ horizon = now + MaxTicks

loopVars == <<mu, ChannelTS, pc, todo, s, sweepsSinceSend, seen,
              fired, pendingSweeps>>

\* What of the poll loop a call that takes time leaves alone.
runVars == <<mu, ChannelTS, pc, todo, s, sweepsSinceSend, pendingSweeps>>

(***************************************************************************)
(* The builder.  Every method has the receiver s *Tasks; the receiver a    *)
(* caller has is the pointer TaskName returned, which is &TK.  asked[h]    *)
(* records what the caller did through handle h, for the properties.       *)
(***************************************************************************)
\* Handle h holds a task under construction.
Building(h) == asked[h].live /\ ~asked[h].done

\* The seconds the clock may advance between the first and the last reading
\* one call makes of it.
Slips == IF now < horizon THEN {0, 1} ELSE {0}

\* TaskName(taskName), its result kept in handle h.  The name is looked up
\* as given, or as a fresh identifier when it is blank.  The clock is read
\* for the suffix, then for monthName, then for created; d is what it
\* advanced during the call and m what it had advanced at the second reading.
TaskName(h, taskName) ==
    /\ \E u \in UUIDs, d \in Slips : \E m \in 0..d :
          LET name   == StringOf(taskName)
              lookup == IF ByteLen(TrimSpace(name)) = 0 THEN u ELSE name
          IN  /\ TK' = NamedTask(name, lookup, now, now + m, now + d)
              /\ asked' = [asked EXCEPT ![h] = [NotAsked EXCEPT !.live = TRUE,
                                                                !.Name = name]]
              /\ now' = now + d
              /\ seen' = IF d = 0 THEN seen ELSE {}
              /\ fired' = IF d = 0 THEN fired ELSE {}
    /\ notes' = <<>>
    /\ spawned' = {}
    /\ UNCHANGED <<TaskList, runVars, computedAt, horizon>>

\* Frequently()
Frequently(h) ==
    /\ Building(h)
    /\ TK' = [TK EXCEPT !.RunType = "frequently"]
    /\ asked' = [asked EXCEPT ![h].RunType = "frequently"]
    /\ notes' = <<>>
    /\ spawned' = {}
    /\ UNCHANGED <<now, TaskList, loopVars, computedAt, horizon>>

\* FrequencyValue as Seconds, Minutes and Hours set it.
ClampInterval(interval) == IF interval <= 0 THEN 1 ELSE interval

\* Seconds(interval)
Seconds(h, interval) ==
    /\ Building(h)
    /\ TK' = [TK EXCEPT !.FrequencyInterval = "seconds",
                        !.FrequencyValue = ClampInterval(interval)]
    /\ notes' = <<>>
    /\ spawned' = {}
    /\ UNCHANGED <<now, TaskList, asked, loopVars, computedAt, horizon>>

\* Minutes(interval)
Minutes(h, interval) ==
    /\ Building(h)
    /\ TK' = [TK EXCEPT !.FrequencyInterval = "minutes",
                        !.FrequencyValue = ClampInterval(interval)]
    /\ notes' = <<>>
    /\ spawned' = {}
    /\ UNCHANGED <<now, TaskList, asked, loopVars, computedAt, horizon>>

\* Hours(interval)
Hours(h, interval) ==
    /\ Building(h)
    /\ TK' = [TK EXCEPT !.FrequencyInterval = "hours",
                        !.FrequencyValue = ClampInterval(interval)]
    /\ notes' = <<>>
    /\ spawned' = {}
    /\ UNCHANGED <<now, TaskList, asked, loopVars, computedAt, horizon>>

\* OneTime(dt).  dt is compared with one reading of the clock (timeNow); a
\* dt before it is replaced by a second reading plus 24 hours, d seconds
\* after the first.
OneTime(h, dt) ==
    /\ Building(h)
    /\ \E d \in (IF dt < now THEN Slips ELSE {0}) :
          /\ TK' = [TK EXCEPT
                       !.RunType = "onetime",
                       !.nextRunTime = IF dt < now THEN (now + d) + 24 * 3600
                                                   ELSE dt]
          /\ now' = now + d
          /\ seen' = IF d = 0 THEN seen ELSE {}
          /\ fired' = IF d = 0 THEN fired ELSE {}
    /\ asked' = [asked EXCEPT ![h].RunType = "onetime"]
    /\ notes' = <<>>
    /\ spawned' = {}
    /\ UNCHANGED <<TaskList, runVars, computedAt, horizon>>

\* Daily()
Daily(h) ==
    /\ Building(h)
    /\ TK' = [TK EXCEPT !.RunType = "daily"]
    /\ asked' = [asked EXCEPT ![h].RunType = "daily"]
    /\ notes' = <<>>
    /\ spawned' = {}
    /\ UNCHANGED <<now, TaskList, loopVars, computedAt, horizon>>

\* Weekly()
Weekly(h) ==
    /\ Building(h)
    /\ TK' = [TK EXCEPT !.RunType = "weekly"]
    /\ asked' = [asked EXCEPT ![h].RunType = "weekly"]
    /\ notes' = <<>>
    /\ spawned' = {}
    /\ UNCHANGED <<now, TaskList, loopVars, computedAt, horizon>>

\* Monthly()
Monthly(h) ==
    /\ Building(h)
    /\ TK' = [TK EXCEPT !.RunType = "monthly"]
    /\ asked' = [asked EXCEPT ![h].RunType = "monthly"]
    /\ notes' = <<>>
    /\ spawned' = {}
    /\ UNCHANGED <<now, TaskList, loopVars, computedAt, horizon>>

\* Sunday() ... Saturday(): the method of weekday d (time.Sunday = 0).
OnWeekday(h, d) ==
    /\ Building(h)
    /\ TK' = [TK EXCEPT !.dayName = d]
    /\ notes' = <<>>
    /\ spawned' = {}
    /\ UNCHANGED <<now, TaskList, asked, loopVars, computedAt, horizon>>

\* Every(day).  d is what the clock advanced during the call and m what it
\* had advanced when getLastDayOfMonth first read it.
Every(h, day) ==
    /\ Building(h)
    /\ \E d \in Slips : \E m \in 0..d :
          /\ TK' = [TK EXCEPT !.monthDay = EveryDay(day, now, <<m, d>>)]
          /\ now' = now + d
          /\ seen' = IF d = 0 THEN seen ELSE {}
          /\ fired' = IF d = 0 THEN fired ELSE {}
    /\ notes' = <<>>
    /\ spawned' = {}
    /\ UNCHANGED <<TaskList, asked, runVars, computedAt, horizon>>

\* At(rt)
At(h, rt) ==
    /\ Building(h)
    /\ TK' = IF TK.RunType # "onetime" /\ TK.RunType # "frequently"
             THEN [TK EXCEPT !.isRunAt = TRUE,
                             !.runAtHour = AtFields(StringOf(rt)).hour,
                             !.runAtMinute = AtFields(StringOf(rt)).minute]
             ELSE TK
    /\ notes' = <<>>
    /\ spawned' = {}
    /\ UNCHANGED <<now, TaskList, asked, loopVars, computedAt, horizon>>

\* ExecFunc(fn)
ExecFunc(h, fn) ==
    /\ Building(h)
    /\ TK' = [TK EXCEPT !.ExecuteFunc = fn]
    /\ asked' = [asked EXCEPT ![h].ExecuteFunc = fn]
    /\ notes' = <<>>
    /\ spawned' = {}
    /\ UNCHANGED <<now, TaskList, loopVars, computedAt, horizon>>

\* One notification of call op at the given level.
Note(op, level) == [op |-> op, level |-> level]

\* The levels of a sequence of notifications.
Levels(ns) == [i \in 1..Len(ns) |-> ns[i].level]

\* The notifications call op emits, given their levels.
NotesOf(op, levels) == [i \in 1..Len(levels) |-> Note(op, levels[i])]

\* What the properties keep of an entry stored.
Stored(e) == [Name |-> e.Name, RunType |-> e.RunType, ExecuteFunc |-> e.ExecuteFunc]

\* AddTask(): nextSchedToRun is computed from the clock as it reads when
\* the call starts, the notifications are written, the clock is read again
\* for created, and the registry write is made without taking TS.mu.
AddTask(h) ==
    /\ Building(h)
    /\ \E carry \in Carries(TK), d \in Slips : \E lag \in Lags(TK, d) :
          LET e == newTask(TK, now, carry, lag, now + d)
          IN  /\ TaskList' = (TK.Name :> e) @@ TaskList
              /\ asked' = [asked EXCEPT ![h].done = TRUE,
                                        ![h].stored = Stored(e)]
              /\ now' = now + d
              /\ seen' = IF d = 0 THEN seen ELSE {}
              /\ fired' = IF d = 0 THEN fired ELSE {}
    /\ computedAt' = (TK.Name :> now) @@ computedAt
    /\ notes' = NotesOf("AddTask", CommitNotes(TK))
    /\ spawned' = {}
    /\ UNCHANGED <<TK, mu, ChannelTS, pc, todo, s, sweepsSinceSend,
                   pendingSweeps, horizon>>

(***************************************************************************)
(* TaskScheduler.Run, step by step, and the calls it makes.                *)
(***************************************************************************)
\* The goroutine executing Run is inside the for loop.
Polling == pc \in {"loop", "range", "lock", "update", "go", "sleep"}

\* A Run that empties the channel as it starts.
RunCallDrains ==
    /\ pc = "idle"
    /\ pc' = "loop"
    /\ ChannelTS' = <<>>
    /\ seen' = {}
    /\ notes' = <<>>
    /\ spawned' = {}
    /\ fired' = {}
    /\ pendingSweeps' = IF ChannelTS # <<>> THEN 0 ELSE -1
    /\ UNCHANGED <<now, TK, TaskList, asked,
                   mu, todo, s, sweepsSinceSend, computedAt, horizon>>

\* The caller invokes Run and stays in the call until it returns.
RunCall ==
    /\ pc = "idle"
    /\ pc' = "loop"
    /\ seen' = {}
    /\ notes' = <<>>
    /\ spawned' = {}
    /\ fired' = {}
    /\ pendingSweeps' = IF ChannelTS # <<>> THEN 0 ELSE -1
    /\ UNCHANGED <<now, TK, TaskList, asked,
                   mu, ChannelTS, todo, s, sweepsSinceSend, computedAt, horizon>>

\* "for _, e := range t.TaskList": a sweep over the registry starts.
SweepStart ==
    /\ pc = "loop"
    /\ pc' = "range"
    /\ todo' = DOMAIN TaskList
    /\ sweepsSinceSend' = IF ChannelTS # <<>> THEN sweepsSinceSend + 1
                          ELSE sweepsSinceSend
    /\ notes' = <<>>
    /\ spawned' = {}
    /\ pendingSweeps' = IF pendingSweeps >= 0 THEN pendingSweeps + 1
                        ELSE pendingSweeps
    /\ UNCHANGED <<now, TK, TaskList, asked, mu, ChannelTS, s, seen, fired, computedAt, horizon>>

\* The due-check with "due or overdue" in place of equality.
DueCheckOverdue(k) ==
    /\ pc = "range"
    /\ k \in todo
    /\ todo' = todo \ {k}
    /\ seen' = seen \cup {k}
    /\ IF TaskList[k].nextRunTime <= now
       THEN s' = TaskList[k] /\ pc' = "lock"
       ELSE s' = ZeroTask /\ pc' = "range"
    /\ notes' = <<>>
    /\ spawned' = {}
    /\ UNCHANGED <<now, TK, TaskList, asked,
                   mu, ChannelTS, sweepsSinceSend, fired, pendingSweeps, computedAt, horizon>>

\* The due-check of the entry under key k: s is a copy of it, and it is due
\* when s.nextRunTime equals the Unix time read now.  A copy that is not due
\* is dropped at once.
DueCheck(k) ==
    /\ pc = "range"
    /\ k \in todo
    /\ todo' = todo \ {k}
    /\ seen' = seen \cup {k}
    /\ IF TaskList[k].nextRunTime = now
       THEN s' = TaskList[k] /\ pc' = "lock"
       ELSE s' = ZeroTask /\ pc' = "range"
    /\ notes' = <<>>
    /\ spawned' = {}
    /\ UNCHANGED <<now, TK, TaskList, asked,
                   mu, ChannelTS, sweepsSinceSend, fired, pendingSweeps, computedAt, horizon>>

\* UpdateNextRunTime(&s): t.mu.Lock()
UpdateLock ==
    /\ pc = "lock"
    /\ mu = ""
    /\ mu' = "Run"
    /\ pc' = "update"
    /\ notes' = <<>>
    /\ spawned' = {}
    /\ UNCHANGED <<now, TK, TaskList, asked,
                   ChannelTS, todo, s, sweepsSinceSend, seen, fired, pendingSweeps, computedAt, horizon>>

\* UpdateNextRunTime(&s) with the lock held: the next run time is computed
\* from the clock as it reads now, the notifications are written, the
\* clock is read again for lastRunTime, the entry is replaced, the lock
\* released.
UpdateNextRunTime ==
    /\ pc = "update"
    /\ \E carry \in Carries(s), d \in Slips : \E lag \in Lags(s, d) :
          /\ TaskList' = (s.Name :> modTask(s, now, carry, lag, now + d)) @@ TaskList
          /\ now' = now + d
          /\ seen' = IF d = 0 THEN seen ELSE {}
          /\ fired' = IF d = 0 THEN fired ELSE {}
    /\ computedAt' = (s.Name :> now) @@ computedAt
    /\ notes' = NotesOf("UpdateNextRunTime", RescheduleNotes(s))
    /\ spawned' = {}
    /\ mu' = ""
    /\ pc' = "go"
    /\ UNCHANGED <<TK, asked, ChannelTS, todo, s, sweepsSinceSend,
                   pendingSweeps, horizon>>

\* "go s.ExecuteFunc()": the callback of the copy s is started, and the
\* copy goes out of scope; a nil func value stops the process.
GoExecuteFunc ==
    /\ pc = "go"
    /\ spawned' = {[Name |-> s.Name, fn |-> s.ExecuteFunc, due |-> s.nextRunTime]}
    /\ pc' = IF s.ExecuteFunc = NoFunc THEN "crashed" ELSE "range"
    /\ s' = ZeroTask
    /\ notes' = <<>>
    /\ fired' = IF s.nextRunTime = now THEN fired \cup {s.Name} ELSE fired
    /\ UNCHANGED <<now, TK, TaskList, asked,
                   mu, ChannelTS, todo, sweepsSinceSend, seen, pendingSweeps, computedAt, horizon>>

\* The sweep is over: time.Sleep(300 * time.Millisecond)
Sleep ==
    /\ pc = "range"
    /\ todo = {}
    /\ pc' = "sleep"
    /\ notes' = <<>>
    /\ spawned' = {}
    /\ UNCHANGED <<now, TK, TaskList, asked,
                   mu, ChannelTS, todo, s, sweepsSinceSend, seen, fired, pendingSweeps, computedAt, horizon>>

\* The select on ChannelTS: a value waiting is received and the loop left
\* (break mainloop); otherwise the default case goes round again.
SelectChannel ==
    /\ pc = "sleep"
    /\ IF ChannelTS # <<>>
       THEN /\ ChannelTS' = Tail(ChannelTS)
            /\ pc' = "reset"
       ELSE /\ ChannelTS' = ChannelTS
            /\ pc' = "loop"
    /\ notes' = <<>>
    /\ spawned' = {}
    /\ UNCHANGED <<now, TK, TaskList, asked,
                   mu, todo, s, sweepsSinceSend, seen, fired, pendingSweeps, computedAt, horizon>>

\* TS.Reset(): t.mu.Lock()
ResetLock ==
    /\ pc = "reset"
    /\ mu = ""
    /\ mu' = "Run"
    /\ pc' = "resetting"
    /\ notes' = <<>>
    /\ spawned' = {}
    /\ UNCHANGED <<now, TK, TaskList, asked,
                   ChannelTS, todo, s, sweepsSinceSend, seen, fired, pendingSweeps, computedAt, horizon>>

\* Reset without the new map: the entries stay.
ResetKeepsEntries ==
    /\ pc = "resetting"
    /\ notes' = NotesOf("Reset", <<"warn">>)
    /\ spawned' = {}
    /\ mu' = ""
    /\ pc' = "idle"
    /\ fired' = {}
    /\ UNCHANGED <<now, TK, TaskList, asked,
                   ChannelTS, todo, s, sweepsSinceSend, seen, pendingSweeps, computedAt, horizon>>

\* TS.Reset() with the lock held: a new empty map, the warning, the unlock;
\* Run returns.
Reset ==
    /\ pc = "resetting"
    /\ TaskList' = <<>>
    /\ computedAt' = <<>>
    /\ notes' = NotesOf("Reset", <<"warn">>)
    /\ spawned' = {}
    /\ mu' = ""
    /\ pc' = "idle"
    /\ fired' = {}
    /\ UNCHANGED <<now, TK, asked,
                   ChannelTS, todo, s, sweepsSinceSend, seen, pendingSweeps, horizon>>

(***************************************************************************)
(* The environment: the goroutine that cancels, and the clock.             *)
(***************************************************************************)
\* "ChannelTS <- true" by another goroutine: the send goes through when the
\* one slot of the channel is free.
Cancel ==
    /\ pc # "crashed"
    /\ Len(ChannelTS) < 1
    /\ ChannelTS' = Append(ChannelTS, TRUE)
    /\ sweepsSinceSend' = 0
    /\ notes' = <<>>
    /\ spawned' = {}
    /\ UNCHANGED <<now, TK, TaskList, asked, mu, pc, todo, s, seen, fired, pendingSweeps, computedAt, horizon>>

\* A second passes.
Tick ==
    /\ now < horizon
    /\ now' = now + 1
    /\ seen' = {}
    /\ notes' = <<>>
    /\ spawned' = {}
    /\ fired' = {}
    /\ UNCHANGED <<TK, TaskList, asked,
                   mu, ChannelTS, pc, todo, s, sweepsSinceSend, pendingSweeps, computedAt, horizon>>

(***************************************************************************)
(* The program as its README uses it: one goroutine builds tasks, one      *)
(* fluent chain after the other (TaskName, the recurrence, the callback,   *)
(* AddTask), each under a name not in the registry, and calls Run; it      *)
(* builds again once Run has returned.                                     *)
(***************************************************************************)
\* The caller is not inside Run.
CallerFree == pc = "idle"

\* The names and intervals of the tasks polled.
PolledNames == {<<"A">>, <<"B">>}

PolledIntervals == {1, 2}

Loop ==
    \/ SweepStart
    \/ \E k \in todo : DueCheck(k)
    \/ UpdateLock
    \/ UpdateNextRunTime
    \/ GoExecuteFunc
    \/ Sleep
    \/ SelectChannel
    \/ ResetLock
    \/ Reset

\* The caller's calls.
Caller ==
    \/ CallerFree /\ ~Building(1)
          /\ \E n \in PolledNames \ DOMAIN TaskList : TaskName(1, n)
    \/ CallerFree /\ TK.RunType = "" /\ TK.ExecuteFunc = NoFunc /\ Frequently(1)
    \/ CallerFree /\ TK.RunType = "frequently" /\ TK.FrequencyInterval = ""
          /\ \E v \in PolledIntervals : Seconds(1, v)
    \/ CallerFree /\ TK.ExecuteFunc = NoFunc
          /\ (TK.RunType = "frequently" => TK.FrequencyInterval # "")
          /\ ExecFunc(1, "f1")
    \/ CallerFree /\ TK.ExecuteFunc # NoFunc /\ AddTask(1)
    \/ ~Building(1) /\ RunCall

Next ==
    \/ Caller
    \/ Loop
    \/ Cancel
    \/ Tick

Spec == Init /\ [][Next]_vars

\* The goroutine executing Run is scheduled again and again, and time passes.
FairSpec == Spec /\ WF_vars(Loop) /\ WF_vars(Tick)

(***************************************************************************)
(* The same program when no second goes unobserved: while Run is polling,  *)
(* the clock moves on, between two steps or inside a call, only after the  *)
(* due-check of every entry has run during the current second.             *)
(***************************************************************************)
TickObserved ==
    /\ Polling => DOMAIN TaskList \subseteq seen
    /\ Tick

ObsNext ==
    \/ Caller
    \/ Loop /\ (now' # now => DOMAIN TaskList \subseteq seen)
    \/ Cancel
    \/ TickObserved

ObsSpec == Init /\ [][ObsNext]_vars /\ WF_vars(Loop) /\ WF_vars(TickObserved)

(***************************************************************************)
(* Two registrations, one after the other: the second chain starts once    *)
(* the first has committed.  Time may pass at any point.                   *)
(***************************************************************************)
\* The names registered: empty, blank, plain and padded.
BuildNames == {<<>>, <<" ">>, <<"A">>, <<" ", "A">>, <<"B">>}

\* The handle whose chain is in progress, if there is one.
InProgress(h) == Building(h) /\ \A g \in Handles : g < h => asked[g].done

BuildNext ==
    \/ ~asked[1].live /\ \E n \in BuildNames : TaskName(1, n)
    \/ asked[1].done /\ ~asked[2].live /\ \E n \in BuildNames : TaskName(2, n)
    \/ \E h \in Handles :
          /\ InProgress(h)
          /\ \/ TK.RunType = "" /\ TK.ExecuteFunc = NoFunc /\ Frequently(h)
             \/ TK.RunType = "frequently" /\ TK.FrequencyInterval = ""
                   /\ Seconds(h, 2)
             \/ TK.ExecuteFunc = NoFunc
                   /\ (TK.RunType = "frequently" => TK.FrequencyInterval # "")
                   /\ \E fn \in Funcs : ExecFunc(h, fn)
             \/ TK.ExecuteFunc # NoFunc /\ AddTask(h)
    \/ Tick

BuildSpec == Init /\ [][BuildNext]_vars

(***************************************************************************)
(* Two builds interleaved: the caller holds the value TaskName returned    *)
(* for task A in handle 1 and the one returned for task B in handle 2, and *)
(* goes on with either.                                                    *)
(***************************************************************************)
\* The name each handle's task is given.
AliasName(h) == IF h = 1 THEN <<"A">> ELSE <<"B">>

AliasNext ==
    \E h \in Handles :
        \/ ~asked[h].live /\ TaskName(h, AliasName(h))
        \/ asked[h].RunType = "" /\ asked[h].ExecuteFunc = NoFunc /\ Frequently(h)
        \/ asked[h].RunType = "frequently" /\ TK.FrequencyInterval = ""
              /\ \E v \in PolledIntervals : Seconds(h, v)
        \/ asked[h].ExecuteFunc = NoFunc /\ \E fn \in Funcs : ExecFunc(h, fn)
        \/ asked[h].ExecuteFunc # NoFunc /\ AddTask(h)

AliasSpec == Init /\ [][AliasNext]_vars

(***************************************************************************)
(* One registration of each kind, made on each day of a week that runs     *)
(* over the end of a month and of a year.                                  *)
(***************************************************************************)
\* Wednesday 2023-12-27 22:13:20 and the six days after it.
CalInstants == {Date(2023, 12, 27 + d, 22, 13) + 20 : d \in 0..6}

\* The last second of the year.
CalLateInstants == {Date(2023, 12, 31, 23, 59) + 59}

CalInit ==
    /\ now \in CalInstants \cup CalLateInstants
    /\ TK = ZeroTask
    /\ TaskList = <<>>
    /\ mu = ""
    /\ ChannelTS = <<>>
    /\ pc = "idle"
    /\ todo = {}
    /\ s = ZeroTask
    /\ spawned = {}
    /\ notes = <<>>
    /\ asked = [h \in Handles |-> NotAsked]
    /\ sweepsSinceSend = 0
    /\ seen = {}
    /\ fired = {}
    /\ pendingSweeps = -1
    /\ computedAt = <<>>
    /\ horizon = now + MaxTicks

\* The arguments of the calls.
CalIntervals == {-3, 0, 1, 2}
\* Intervals of some 585 years: the least values whose duration is past
\* 2^64 ns.
CalLongMinutes == {307445735}
CalLongHours   == {5124096}
CalDateTimes == {now - 1, now, now + 1}
CalMonthDays == {0, 2, 29, 30, 31}
CalRunTimes  == {<<"0", "9", ":", "3", "0">>, <<"\f", "1", "7", ":", "0", "5", " ">>,
                 <<"2", "3", ":", "4", "5">>,
                 <<"9", ":", "3", "0">>, <<"n", "o", "o", "n">>,
                 <<"1", "\\u00A0", ":", "3">>, <<"0", "\\u00A0", ":", "3", "0">>,
                 <<"\\U00010348", ":">>, <<"1", "\\U00010348", ":", "3", "0">>,
                 <<"2", "4", ":", "0", "0">>, <<"-", "1", ":", "3", "0">>}

\* The guard of At: every RunType but onetime and frequently.
Timed == TK.RunType # "onetime" /\ TK.RunType # "frequently"

CalNext ==
    \/ ~asked[1].live /\ TaskName(1, <<"A">>)
    \/ TK.RunType = "" /\ TK.ExecuteFunc = NoFunc /\ Frequently(1)
    \/ TK.RunType = "" /\ TK.ExecuteFunc = NoFunc
          /\ \E dt \in CalDateTimes : OneTime(1, dt)
    \/ TK.RunType = "" /\ TK.ExecuteFunc = NoFunc /\ Daily(1)
    \/ TK.RunType = "" /\ TK.ExecuteFunc = NoFunc /\ Weekly(1)
    \/ TK.RunType = "" /\ TK.ExecuteFunc = NoFunc /\ Monthly(1)
    \/ TK.RunType = "frequently" /\ TK.FrequencyInterval = ""
          /\ \E v \in CalIntervals : Seconds(1, v)
    \/ TK.RunType = "frequently" /\ TK.FrequencyInterval = ""
          /\ \E v \in CalIntervals \cup CalLongMinutes : Minutes(1, v)
    \/ TK.RunType = "frequently" /\ TK.FrequencyInterval = ""
          /\ \E v \in CalIntervals \cup CalLongHours : Hours(1, v)
    \/ TK.RunType = "weekly" /\ TK.dayName = 0 /\ ~TK.isRunAt
          /\ TK.ExecuteFunc = NoFunc
          /\ \E d \in 0..6 : OnWeekday(1, d)
    \/ TK.RunType = "monthly" /\ TK.monthDay = 0 /\ ~TK.isRunAt
          /\ TK.ExecuteFunc = NoFunc
          /\ \E day \in CalMonthDays : Every(1, day)
    \/ Timed /\ ~TK.isRunAt /\ TK.ExecuteFunc = NoFunc
          /\ \E rt \in CalRunTimes : At(1, rt)
    \/ TK.ExecuteFunc = NoFunc /\ ExecFunc(1, "f1")
    \/ TK.ExecuteFunc # NoFunc /\ AddTask(1)

CalSpec == CalInit /\ [][CalNext]_vars

(***************************************************************************)
(* The same registrations made in the middle of every month of a leap      *)
(* year, and of the February of a common year.                             *)
(***************************************************************************)
MonthInstants ==
    {Date(2024, m, 15, 22, 13) + 20 : m \in 1..12} \cup {Date(2023, 2, 15, 22, 13) + 20}

MonthInit ==
    /\ now \in MonthInstants
    /\ TK = ZeroTask
    /\ TaskList = <<>>
    /\ mu = ""
    /\ ChannelTS = <<>>
    /\ pc = "idle"
    /\ todo = {}
    /\ s = ZeroTask
    /\ spawned = {}
    /\ notes = <<>>
    /\ asked = [h \in Handles |-> NotAsked]
    /\ sweepsSinceSend = 0
    /\ seen = {}
    /\ fired = {}
    /\ pendingSweeps = -1
    /\ computedAt = <<>>
    /\ horizon = now + MaxTicks

MonthSpec == MonthInit /\ [][CalNext]_vars

(***************************************************************************)
(* One registration of each kind, then Run, with the clock followed        *)
(* around the two instants that matter: the commit and the first due       *)
(* time.                                                                   *)
(***************************************************************************)
\* The entry of the task built in TK has not fired yet.
Waiting == TK.Name \in DOMAIN TaskList /\ TaskList[TK.Name].lastRunTime = 0

\* The nextRunTime AddTask gave the task built in TK.
FirstDue == TaskList[TK.Name].nextRunTime

\* A second passes, within MaxTicks seconds of the start or of the first
\* due time.
TickNear ==
    /\ TaskList # <<>>
    /\ Tick

\* The time up to the first due time passes, nothing being due meanwhile;
\* the clock is followed for MaxTicks seconds more.
Elapse ==
    /\ Waiting
    /\ now < FirstDue
    /\ now' = FirstDue
    /\ horizon' = FirstDue + MaxTicks
    /\ seen' = {}
    /\ fired' = {}
    /\ notes' = <<>>
    /\ spawned' = {}
    /\ UNCHANGED <<TK, TaskList, computedAt, asked,
                   mu, ChannelTS, pc, todo, s, sweepsSinceSend, pendingSweeps>>

\* The instants at which the program starts: a Wednesday and a Sunday
\* evening of the last week of 2023, and the last second of that year.
RecurInstants ==
    {Date(2023, 12, 27, 22, 13) + 20, Date(2023, 12, 31, 22, 13) + 20}
        \cup CalLateInstants

RecurInit == CalInit /\ now \in RecurInstants

RecurNext ==
    \/ CallerFree /\ CalNext
    \/ asked[1].done /\ RunCall
    \/ Loop
    \/ Cancel
    \/ TickNear
    \/ Elapse

RecurSpec == RecurInit /\ [][RecurNext]_vars

(***************************************************************************)
(* The rules, at commit and at reschedule.                                 *)
(***************************************************************************)
\* The time at which the nextRunTime of entry e was computed: its last
\* reschedule, or its commit.
ComputedAt(e) == computedAt[e.Name]

(***************************************************************************)
(* Cancellation.                                                           *)
(***************************************************************************)
\* C1: once a cancellation signal is in the channel while Run is polling,
\* Run returns; when the loop is left no entry of the sweep is unvisited or
\* half processed (the sweep in flight was completed); at most one sweep is
\* started after the send; and the registry is empty in the state in which
\* Run returns.
C1_CancelStopsRun ==
    /\ (ChannelTS # <<>> /\ Polling) ~> (pc = "idle")
    /\ [](pc \in {"reset", "resetting"} => todo = {} /\ s = ZeroTask)
    /\ [](sweepsSinceSend <= 1)
    /\ [][pc = "resetting" /\ pc' = "idle" => TaskList' = <<>>]_vars

\* Run has just returned through Reset, after a sweep that started after the
\* send and visited entries of the registry.
C1_Witness ==
    /\ pc = "idle"
    /\ notes = <<Note("Reset", "warn")>>
    /\ TaskList = <<>>
    /\ sweepsSinceSend = 1
    /\ seen # {}

(***************************************************************************)
(* Fixed-interval tasks.                                                   *)
(***************************************************************************)
\* The copy s is of a Frequently/Seconds task.
EverySeconds(e) == e.RunType = "frequently" /\ e.FrequencyInterval = "seconds"

\* The Frequently/Seconds entry under k has a due second that is still to
\* be observed, and that the clock is followed up to.
DueAt(k) ==
    /\ Polling
    /\ k \in DOMAIN TaskList
    /\ EverySeconds(TaskList[k])
    /\ now <= TaskList[k].nextRunTime
    /\ TaskList[k].nextRunTime <= horizon

\* The last step started the callback of the task named k.
FiredAt(k) == \E x \in spawned : x.Name = k

\* While Run is polling, the due second of the entry under k is replaced by
\* no step but the reschedule of the copy made of it for that due second,
\* and the callback started next is that copy's: the first firing of k
\* after a due second is the firing for that second.
FiringIsForDueSecond(k) ==
    /\ Polling /\ k \in DOMAIN TaskList /\ k \in DOMAIN TaskList'
          /\ TaskList'[k].nextRunTime # TaskList[k].nextRunTime
          => /\ pc = "update" /\ pc' = "go"
             /\ s.Name = k
             /\ s.nextRunTime = TaskList[k].nextRunTime
    /\ \A x \in spawned' :
          pc = "go" /\ x.Name = s.Name /\ x.due = s.nextRunTime

\* C2 as stated: the nextRunTime written back at a firing of a
\* Frequently/Seconds(v) task is exactly v seconds after the nextRunTime
\* that triggered the firing.
C2_ExactlyVAfterTrigger ==
    pc = "go" /\ EverySeconds(s) =>
        TaskList[s.Name].nextRunTime = s.nextRunTime + s.FrequencyValue

\* C2, amended: while Run is polling and every second is observed, a
\* Frequently/Seconds(v) task is dispatched for each of its due seconds; the
\* nextRunTime written back at a firing is v seconds after the clock reading
\* of the recomputation, so at least v seconds after the nextRunTime that
\* triggered the firing, and exactly v seconds after it when the clock has
\* not advanced since the due-check.
C2_VAfterRecomputation ==
    /\ [](pc = "go" /\ EverySeconds(s) =>
            LET e == TaskList[s.Name]
            IN  /\ s.FrequencyValue >= 1
                /\ e.nextRunTime = ComputedAt(e) + s.FrequencyValue
                /\ e.nextRunTime >= s.nextRunTime + s.FrequencyValue
                /\ ComputedAt(e) = s.nextRunTime
                      => e.nextRunTime = s.nextRunTime + s.FrequencyValue)
    /\ [][\A k \in PolledNames : FiringIsForDueSecond(k)]_vars
    /\ \A k \in PolledNames : DueAt(k) ~> (FiredAt(k) \/ ~Polling)

\* A task that has fired before fires again, and the clock has advanced
\* between the due-check and the recomputation.
C2_Witness ==
    /\ pc = "go"
    /\ EverySeconds(s)
    /\ s.lastRunTime # 0
    /\ TaskList[s.Name].lastRunTime > s.nextRunTime

(***************************************************************************)
(* Missed ticks.                                                           *)
(***************************************************************************)
\* The entry has a recurrence that UpdateNextRunTime recomputes.
Recurring(e) == RecognizedAtReschedule(e) /\ e.nextRunTime # 0

\* The due second of the recurring entry under k has passed with no
\* due-check finding it due.
Missed(k) ==
    /\ Polling
    /\ k \in DOMAIN TaskList
    /\ Recurring(TaskList[k])
    /\ TaskList[k].nextRunTime < now
    /\ ~(pc \in {"lock", "update"} /\ s.Name = k)

\* The last step started the callback of the task named k.
Dispatched(k) == \E x \in spawned : x.Name = k

\* While Run polls, an entry that was missed stays missed.
MissedStaysMissed ==
    [][\A k \in PolledNames : Missed(k) /\ Polling' => Missed(k)']_vars

\* C3: a recurring task whose due second was missed is dispatched again
\* later, as long as the loop keeps polling.
C3_MissedTaskRunsAgain ==
    \A k \in PolledNames : Missed(k) ~> (Dispatched(k) \/ ~Polling)

(***************************************************************************)
(* The registry lock.                                                      *)
(***************************************************************************)
\* C4: every step that writes the registry map (insert, reschedule, reset)
\* is taken while TS.mu is held.
C4_WritesHoldTheLock == [][TaskList' # TaskList => mu # ""]_vars

(***************************************************************************)
(* Tasks without a recurrence.                                             *)
(***************************************************************************)
\* C9: an entry whose RunType no case of AddTask recognizes has
\* nextRunTime 0, no due-check finds it due, and no callback is started
\* for it.
C9_UnrecognizedNeverRuns ==
    /\ \A k \in DOMAIN TaskList :
          ~RecognizedAtCommit(TaskList[k]) => TaskList[k].nextRunTime = 0
    /\ pc \in {"lock", "update", "go"} => RecognizedAtCommit(s)
    /\ \A x \in spawned :
          x.Name \in DOMAIN TaskList => RecognizedAtCommit(TaskList[x.Name])

\* An entry without a recurrence has been in the registry for more than a
\* second and the running sweep has made its due-check.
C9_Witness ==
    \E k \in DOMAIN TaskList :
        /\ ~RecognizedAtCommit(TaskList[k])
        /\ Polling
        /\ k \in seen
        /\ now > TaskList[k].created

(***************************************************************************)
(* Names.                                                                  *)
(***************************************************************************)
\* Both chains have committed.
BothDone == asked[1].done /\ asked[2].done

\* Sequence p is a proper prefix of sequence q.
ProperPrefix(p, q) == Len(p) < Len(q) /\ SubSeq(q, 1, Len(p)) = p

\* C5: when two tasks are registered one after the other with the same
\* non-blank name n, the registry holds two entries under two different
\* keys: the first, as it was committed, under n (trimmed), the second under
\* a suffixed variant of it.
C5_SameNameTwoKeys ==
    BothDone /\ asked[1].Name = asked[2].Name /\ TrimSpace(asked[1].Name) # <<>> =>
        LET n      == TrimSpace(asked[1].Name)
            first  == asked[1].stored
            second == asked[2].stored
        IN  /\ first.Name = n
            /\ ProperPrefix(n, second.Name)
            /\ first.Name # second.Name
            /\ first.Name \in DOMAIN TaskList
            /\ second.Name \in DOMAIN TaskList
            /\ Stored(TaskList[first.Name]) = first
            /\ Stored(TaskList[second.Name]) = second

\* C6: no registry key is empty, and two tasks committed with empty or
\* blank names are stored under two distinct keys.
C6_EmptyNameGetsIdentifier ==
    /\ \A k \in DOMAIN TaskList : k # <<>>
    /\ BothDone /\ TrimSpace(asked[1].Name) = <<>> /\ TrimSpace(asked[2].Name) = <<>> =>
          /\ asked[1].stored.Name # asked[2].stored.Name
          /\ {asked[1].stored.Name, asked[2].stored.Name} \subseteq DOMAIN TaskList

(***************************************************************************)
(* Interleaved builds.                                                     *)
(***************************************************************************)
\* What the caller asked for through handle h.
Asked(h) == [Name |-> asked[h].Name, RunType |-> asked[h].RunType,
             ExecuteFunc |-> asked[h].ExecuteFunc]

\* C7: the entry committed through a handle carries the name, the rule and
\* the callback the caller gave through that handle, and the task still
\* being built through the other handle is as its caller left it.
C7_BuildsDoNotShareState ==
    \A h \in Handles : asked[h].done =>
        /\ asked[h].stored = Asked(h)
        /\ \A g \in Handles \ {h} : Building(g) => Stored(TK) = Asked(g)

(***************************************************************************)
(* The weekly rule.                                                        *)
(***************************************************************************)
\* A weekly task has been committed; TK still holds what the chain set.
WeeklyCommitted ==
    /\ asked[1].done
    /\ TK.RunType = "weekly"
    /\ TK.Name \in DOMAIN TaskList

\* The day number of the most recent day, today included, that is weekday d.
MostRecent(clock, d) == DayNumber(clock) - ((Weekday(clock) - d) % 7)

\* Hour hh, minute mm of the day numbered n.
OnDay(n, hh, mm) == n * 86400 + hh * 3600 + mm * 60

\* C8 as stated: the weekly next-run time computed at commit is 7 days
\* after the most recent occurrence (today or earlier) of the target weekday,
\* at the configured hour and minute.
C8_WeekAfterMostRecent ==
    WeeklyCommitted =>
        LET e == TaskList[TK.Name]
        IN  e.nextRunTime = OnDay(MostRecent(ComputedAt(e), TK.dayName) + 7,
                                  Atoi(e.runAtHour), Atoi(e.runAtMinute))

\* C8, amended: the weekly next-run time computed at commit is 7 days after
\* the target weekday's day in the current week, Sunday to Saturday, at the
\* configured hour and minute: 7 days after the most recent occurrence of
\* the target weekday when that weekday is today's or an earlier one of the
\* week, 14 days after it when that weekday comes later in the week.  The
\* hour and the minute are counted from the start of that day: a value
\* outside 0..23 or 0..59, which At does not reject, carries over.
C8_WeekAfterThisWeeks ==
    WeeklyCommitted =>
        LET e     == TaskList[TK.Name]
            today == Weekday(ComputedAt(e))
            hh    == Atoi(e.runAtHour)
            mm    == Atoi(e.runAtMinute)
        IN  /\ e.nextRunTime =
                  OnDay(DayNumber(ComputedAt(e)) - today + TK.dayName + 7, hh, mm)
            /\ TK.dayName <= today =>
                  e.nextRunTime = OnDay(MostRecent(ComputedAt(e), TK.dayName) + 7, hh, mm)
            /\ TK.dayName > today =>
                  e.nextRunTime = OnDay(MostRecent(ComputedAt(e), TK.dayName) + 14, hh, mm)

\* A weekly task committed on a Sunday, the last day of the year, for the
\* Tuesday at 09:30.
C8_Witness ==
    /\ WeeklyCommitted
    /\ Weekday(now) = 0
    /\ TK.dayName = 2
    /\ TaskList[TK.Name].runAtHour = <<"0", "9">>
    /\ TaskList[TK.Name].created = now
    /\ Month(TaskList[TK.Name].nextRunTime) = 1

(***************************************************************************)
(* Notifications of a commit.                                              *)
(***************************************************************************)
\* C10: a commit with an unrecognized rule emits one notification, an error;
\* a commit with a recognized rule emits one notification, an information.
C10_OneNotificationPerCommit ==
    notes # <<>> /\ notes[1].op = "AddTask" =>
        Levels(notes) = IF RecognizedAtCommit(TK) THEN <<"info">> ELSE <<"error">>

(***************************************************************************)
(* The one-time rule.                                                      *)
(***************************************************************************)
\* C11: OneTime(dt) keeps dt as the next-run time only when dt is strictly
\* greater than the current time; for every other dt, dt = now included, the
\* next-run time is now + 24 hours, now being the clock as the call last
\* read it.
C11_OneTimeStrictlyFuture ==
    [][\A dt \in CalDateTimes :
          OneTime(1, dt) =>
              TK'.nextRunTime = IF dt > now THEN dt ELSE now' + 24 * 3600]_vars

\* d is exactly v units of u seconds.
Exactly(d, v, u) == d % u = 0 /\ d \div u = v

\* The interval setter is called with v.
SetInterval(v) == Seconds(1, v) \/ Minutes(1, v) \/ Hours(1, v)

\* C12: an interval setter given v stores max(v, 1), and the next-run time
\* of a Frequently task, computed at commit or at a reschedule, is the time
\* of the computation plus that many units.
C12_FrequentlyAddsInterval ==
    /\ [][\A v \in CalIntervals \cup CalLongMinutes \cup CalLongHours :
             SetInterval(v) => TK'.FrequencyValue = IF v >= 1 THEN v ELSE 1]_vars
    /\ [](\A k \in DOMAIN TaskList :
             LET e == TaskList[k]
             IN  e.RunType = "frequently" /\ e.FrequencyInterval # "" =>
                     Exactly(e.nextRunTime - ComputedAt(e), e.FrequencyValue,
                             UnitSeconds(e.FrequencyInterval)))

\* The same for intervals whose duration fits an int64 of nanoseconds.
FrequentlyWithinDuration ==
    \A k \in DOMAIN TaskList :
        LET e == TaskList[k]
        IN  /\ e.RunType = "frequently"
            /\ e.FrequencyInterval # ""
            /\ e.FrequencyInterval = "seconds"
                  \/ e.FrequencyValue <= HalfUnits(e.FrequencyInterval)
            => Exactly(e.nextRunTime - ComputedAt(e), e.FrequencyValue,
                       UnitSeconds(e.FrequencyInterval))

(***************************************************************************)
(* The day of the month.                                                   *)
(***************************************************************************)
\* A leap year of the Gregorian calendar.
LeapYear(y) == y % 4 = 0 /\ (y % 100 # 0 \/ y % 400 = 0)

\* The number of days of month m of year y.
LastDayOf(y, m) ==
    CASE m \in {4, 6, 9, 11} -> 30
      [] m = 2               -> IF LeapYear(y) THEN 29 ELSE 28
      [] OTHER               -> 31

\* C13: Every(d), d >= 0, called in month m, resolves the month-day to the
\* last calendar day of m when d is 0 or past the last day of m, and to d
\* otherwise.
C13_EveryResolvesDay ==
    [][\A d \in CalMonthDays :
          Every(1, d) =>
              LET last == LastDayOf(Year(now), Month(now))
              IN  TK'.monthDay = IF d = 0 \/ d > last THEN last ELSE d]_vars

\* In the February of a common year a day was resolved to 28, and in the
\* February of a leap year a day was kept at 29.
C13_Witness ==
    /\ TK.RunType = "monthly"
    /\ Month(now) = 2
    /\ \/ Year(now) = 2023 /\ TK.monthDay = 28
       \/ Year(now) = 2024 /\ TK.monthDay = 29
    /\ TK.Name \in DOMAIN TaskList

(***************************************************************************)
(* The daily rule.                                                         *)
(***************************************************************************)
\* C14: the next-run time of a Daily task, computed at commit or at a
\* reschedule, is on the day after the day of the computation, at the hour
\* and minute configured, be they past or still to come on that day.
C14_DailyIsTomorrow ==
    \A k \in DOMAIN TaskList :
        LET e == TaskList[k]
        IN  e.RunType = "daily" =>
                /\ DayNumber(e.nextRunTime) = DayNumber(ComputedAt(e)) + 1
                /\ Hour(e.nextRunTime) = Atoi(e.runAtHour)
                /\ Minute(e.nextRunTime) = Atoi(e.runAtMinute)
                /\ e.nextRunTime % 60 = 0

(***************************************************************************)
(* The weekly rule at reschedule.                                          *)
(***************************************************************************)
\* C15: when a Weekly task configured for weekday W has fired, the
\* nextRunTime written back falls on weekday W, 7 days after the day of the
\* firing.
C15_WeeklyKeepsWeekday ==
    pc = "go" /\ s.RunType = "weekly" =>
        LET e == TaskList[s.Name]
        IN  /\ Weekday(e.nextRunTime) = TK.dayName
            /\ DayNumber(e.nextRunTime) = DayNumber(e.lastRunTime) + 7

(***************************************************************************)
(* Firing once.                                                            *)
(***************************************************************************)
\* C16: when the callback is started the entry has been written back with
\* the lock released again, and no callback is started a second time for
\* the same due second.
C16_NoDoubleFiring ==
    pc = "go" =>
        /\ mu = ""
        /\ TaskList[s.Name].lastRunTime >= s.nextRunTime
        /\ ~(s.nextRunTime = now /\ s.Name \in fired)

\* C17: a OneTime entry that has fired has no next-run time, and the copy
\* under dispatch is never of a OneTime entry that has fired before.
C17_OneTimeFiresOnce ==
    /\ \A k \in DOMAIN TaskList :
          TaskList[k].RunType = "onetime" /\ TaskList[k].lastRunTime # 0 =>
              TaskList[k].nextRunTime = 0
    /\ pc \in {"lock", "update", "go"} /\ s.RunType = "onetime" => s.lastRunTime = 0

\* A OneTime entry has fired, and a sweep of a later second has checked it.
C17_Witness ==
    \E k \in DOMAIN TaskList :
        /\ TaskList[k].RunType = "onetime"
        /\ TaskList[k].lastRunTime # 0
        /\ now > TaskList[k].lastRunTime
        /\ Polling
        /\ k \in seen
        /\ pc = "sleep"

(***************************************************************************)
(* The next-run time lies ahead.                                           *)
(***************************************************************************)
\* C18: the nextRunTime of every entry with a recognized rule is greater
\* than the time at which it was computed, at commit or at reschedule.
C18_NextRunIsAhead ==
    \A k \in DOMAIN TaskList :
        RecognizedAtCommit(TaskList[k]) =>
            TaskList[k].nextRunTime > ComputedAt(TaskList[k])

(***************************************************************************)
(* The monthly rule.                                                       *)
(***************************************************************************)
\* C19: the next-run time of a Monthly task with resolved day d, computed
\* at commit or at a reschedule, is day d of the month after the month of
\* the computation, at the hour and minute configured.
C19_MonthlyIsNextMonth ==
    \A k \in DOMAIN TaskList :
        LET e == TaskList[k]
            c == ComputedAt(e)
        IN  e.RunType = "monthly" /\ e.monthDay >= 1 =>
                /\ Month(e.nextRunTime) = (Month(c) % 12) + 1
                /\ Year(e.nextRunTime) = Year(c) + (IF Month(c) = 12 THEN 1 ELSE 0)
                /\ Day(e.nextRunTime) = e.monthDay
                /\ Hour(e.nextRunTime) = Atoi(e.runAtHour)
                /\ Minute(e.nextRunTime) = Atoi(e.runAtMinute)

(***************************************************************************)
(* A signal sent while Run is not running.                                 *)
(***************************************************************************)
\* C20: a signal in the channel while Run is not running stays there, also
\* over the call of Run; the Run called with a signal pending starts one
\* sweep and no second one, receives the signal after that sweep, empties
\* the registry as it returns, and does return.
C20_PendingSignalEndsNextRun ==
    /\ [][pc = "idle" /\ ChannelTS # <<>> => ChannelTS' = ChannelTS]_vars
    /\ [](pendingSweeps <= 1)
    /\ [][pendingSweeps >= 0 /\ pc = "sleep" /\ pc' # "sleep" =>
             /\ pendingSweeps = 1
             /\ ChannelTS' = Tail(ChannelTS)
             /\ pc' = "reset"]_vars
    /\ [][pendingSweeps >= 0 /\ pc = "resetting" /\ pc' = "idle" =>
             pendingSweeps = 1 /\ TaskList' = <<>>]_vars
    /\ (Polling /\ pendingSweeps >= 0) ~> (pc = "idle")

\* The Run called with a signal pending has made its one sweep over a
\* registry with an entry in it, has received the signal, and is about to
\* empty the registry.
C20_Witness ==
    /\ pc = "resetting"
    /\ pendingSweeps = 1
    /\ ChannelTS = <<>>
    /\ TaskList # <<>>
    /\ seen = DOMAIN TaskList

====
